---------------------------- MODULE Spec2Model ----------------------------
(***************************************************************************)
(* Model of src/app.js: an Express server that keeps a list of student     *)
(* records in one JSON file (students.json) and serves                     *)
(*     GET /students, GET /students/:id, POST /students, PUT /students/:id *)
(*                                                                         *)
(* Every handler is an async function.  Node runs the code between two     *)
(* awaits without interruption, so one action of the model is one such     *)
(* synchronous segment of one handler; segments of different requests      *)
(* interleave freely at the awaits (fs.readFile, fs.writeFile).            *)
(*                                                                         *)
(* The file system is the environment of the handlers.  A read that        *)
(* resolves returns the file as it is at that moment, and a write that     *)
(* resolves has replaced the whole file by the text given; either may      *)
(* instead reject at any time, the read leaving the file alone, the write  *)
(* leaving it as it was or truncated (see FailedWrite).                    *)
(***************************************************************************)
EXTENDS Integers, Sequences, FiniteSets, TLC

\* Number of requests the server handles in one behaviour (each request slot
\* carries one request from arrival to response).
NumRequests == 2

Requests == 1 .. NumRequests

VARIABLES
    database,   \* content of students.json: [valid, text]
    pc,         \* pc[r]: where the handler of request r stands
    method,     \* method[r]: which route handles r
    params,     \* params[r]: req.params.id (a JS string), Undefined without :id
    body,       \* body[r]: req.body, a JS object (as parsed by express.json())
    students,   \* students[r]: the handler's local array `students`
    idx,        \* idx[r]: the handler's local `idx` (PUT), 0 when unset
    text,       \* text[r]: the local `text` of writeDB, serialised before the await
    status,     \* status[r]: res.status(...) of the response, 0 before it is sent
    resBody,    \* resBody[r]: what res.json(...) sent
    ver,        \* history: number of writes students.json has received
    arriveVer,  \* history: ver when request r arrived, -1 before
    loadVer,    \* history: ver when r's readDB completed, -1 before
    saveVer,    \* history: ver right after r's writeDB changed the file, -1 before
    loaded      \* history: the array readDB returned to r, before r changed it

vars == <<database, pc, method, params, body, students, idx, text, status,
          resBody, ver, arriveVer, loadVer, saveVer, loaded>>

(***************************************************************************)
(* JavaScript values.  The model covers undefined, null, numbers and       *)
(* strings; a string is the sequence of its characters.  NaN is the result *)
(* of converting a non-numeric string to a number.                         *)
(***************************************************************************)
Undefined == [t |-> "undefined", n |-> 0, s |-> <<>>]
Null      == [t |-> "null", n |-> 0, s |-> <<>>]
NaN       == [t |-> "NaN", n |-> 0, s |-> <<>>]
Num(n)    == [t |-> "number", n |-> n, s |-> <<>>]
Str(s)    == [t |-> "string", n |-> 0, s |-> s]

\* typeof v
TypeOf(v) ==
    CASE v.t = "undefined" -> "undefined"
      [] v.t = "null"      -> "object"
      [] v.t = "NaN"       -> "number"
      [] v.t = "number"    -> "number"
      [] v.t = "string"    -> "string"

\* ToBoolean(v), as used by `!id`
Truthy(v) ==
    CASE v.t = "undefined" -> FALSE
      [] v.t = "null"      -> FALSE
      [] v.t = "NaN"       -> FALSE
      [] v.t = "number"    -> v.n # 0
      [] v.t = "string"    -> v.s # <<>>

Digits == {"0", "1", "2", "3", "4", "5", "6", "7", "8", "9"}

DigitVal(c) ==
    CASE c = "0" -> 0 [] c = "1" -> 1 [] c = "2" -> 2 [] c = "3" -> 3
      [] c = "4" -> 4 [] c = "5" -> 5 [] c = "6" -> 6 [] c = "7" -> 7
      [] c = "8" -> 8 [] c = "9" -> 9

DigitChar(d) ==
    CASE d = 0 -> "0" [] d = 1 -> "1" [] d = 2 -> "2" [] d = 3 -> "3"
      [] d = 4 -> "4" [] d = 5 -> "5" [] d = 6 -> "6" [] d = 7 -> "7"
      [] d = 8 -> "8" [] d = 9 -> "9"

RECURSIVE DecimalValue(_)
DecimalValue(s) ==
    IF s = <<>> THEN 0
    ELSE 10 * DecimalValue(SubSeq(s, 1, Len(s) - 1)) + DigitVal(s[Len(s)])

\* ToNumber of a string.  The characters of the model are digits and letters
\* (no white space, sign, point or exponent), for which StringToNumber is:
\* the empty string is 0, a run of decimal digits is its value (leading
\* zeros allowed), anything else is NaN.
StringToNumber(s) ==
    IF s = <<>> THEN Num(0)
    ELSE IF \A i \in 1 .. Len(s) : s[i] \in Digits THEN Num(DecimalValue(s))
    ELSE NaN

RECURSIVE NumberToString(_)
\* ToString of a non-negative integer: its decimal digits, no leading zero.
NumberToString(n) ==
    IF n < 10 THEN <<DigitChar(n)>>
    ELSE Append(NumberToString(n \div 10), DigitChar(n % 10))

\* a === b
StrictEquals(a, b) ==
    /\ a.t # "NaN"
    /\ a = b

\* a == b (abstract equality): same type compares strictly, null and
\* undefined equal each other, a number and a string compare after
\* ToNumber of the string, everything else is unequal.
LooseEquals(a, b) ==
    IF TypeOf(a) = TypeOf(b) /\ a.t = b.t THEN StrictEquals(a, b)
    ELSE IF a.t \in {"undefined", "null"} /\ b.t \in {"undefined", "null"} THEN TRUE
    ELSE IF TypeOf(a) = "number" /\ b.t = "string" THEN StrictEquals(a, StringToNumber(b.s))
    ELSE IF a.t = "string" /\ TypeOf(b) = "number" THEN StrictEquals(StringToNumber(a.s), b)
    ELSE FALSE

(***************************************************************************)
(* JavaScript objects: the sequence of their own properties in insertion   *)
(* order, each a key and a value.                                          *)
(***************************************************************************)
Prop(k, v) == [k |-> k, v |-> v]

HasKey(o, k) == \E i \in 1 .. Len(o) : o[i].k = k

\* o.k : undefined when o has no property k
Get(o, k) ==
    IF HasKey(o, k) THEN o[CHOOSE i \in 1 .. Len(o) : o[i].k = k].v
    ELSE Undefined

\* o.k = v : overwrites in place, or adds the property at the end
Put(o, k, v) ==
    IF HasKey(o, k) THEN [i \in 1 .. Len(o) |-> IF o[i].k = k THEN Prop(k, v) ELSE o[i]]
    ELSE Append(o, Prop(k, v))

(***************************************************************************)
(* JSON text.  students.json holds the text JSON.stringify(data, null, 2)  *)
(* wrote; the model keeps the text as its sequence of objects, each object *)
(* as its members in order, each member value as a token: the characters   *)
(* of the literal and whether it is quoted.  Indentation is white space    *)
(* between tokens and is left out.                                         *)
(***************************************************************************)
Token(quoted, chars) == [quoted |-> quoted, chars |-> chars]

NullToken == Token(FALSE, <<"n", "u", "l", "l">>)

Member(k, tok) == [k |-> k, tok |-> tok]

\* JSON.stringify of a property value: a number prints its digits, a string
\* is quoted, null and NaN print null.
StringifyValue(v) ==
    CASE v.t = "number" -> Token(FALSE, NumberToString(v.n))
      [] v.t = "string" -> Token(TRUE, v.s)
      [] v.t = "null"   -> NullToken
      [] v.t = "NaN"    -> NullToken

IsDefined(p) == p.v.t # "undefined"

\* JSON.stringify of an object: its properties in insertion order, the ones
\* whose value is undefined left out.
StringifyObject(o) ==
    LET kept == SelectSeq(o, IsDefined)
    IN  [i \in 1 .. Len(kept) |-> Member(kept[i].k, StringifyValue(kept[i].v))]

\* JSON.stringify(data, null, 2) of an array of objects
JsonStringify(data) == [i \in 1 .. Len(data) |-> StringifyObject(data[i])]

\* JSON.parse of a member value
ParseToken(tok) ==
    IF tok.quoted THEN Str(tok.chars)
    ELSE IF tok = NullToken THEN Null
    ELSE Num(DecimalValue(tok.chars))

ParseObject(m) == [i \in 1 .. Len(m) |-> Prop(m[i].k, ParseToken(m[i].tok))]

\* Faulty variant of JsonParse: the records come out in the reverse of their
\* order in the text.
JsonParse_Reversed(rawData) ==
    [i \in 1 .. Len(rawData) |-> ParseObject(rawData[Len(rawData) + 1 - i])]

\* JSON.parse(rawData) of a well-formed file
JsonParse(rawData) == [i \in 1 .. Len(rawData) |-> ParseObject(rawData[i])]

\* What res.json(x) sends: the JSON text of an array, of one object, or of
\* an {error: message} object (a message is kept as one symbol).
NoBody == [array |-> FALSE, items |-> <<>>]

\* Faulty variant of JsonArray: the records are sent in reverse order.
JsonArray_Reversed(data) ==
    [array |-> TRUE,
     items |-> JsonStringify([i \in 1 .. Len(data) |-> data[Len(data) + 1 - i]])]

JsonArray(data) == [array |-> TRUE, items |-> JsonStringify(data)]

JsonObject(o) == [array |-> FALSE, items |-> <<StringifyObject(o)>>]

JsonError(message) == JsonObject(<<Prop("error", Str(<<message>>))>>)

(***************************************************************************)
(* The requests of the model.                                              *)
(***************************************************************************)
\* An object literal / parsed JSON object with the given properties, a
\* property being absent when its value is given as Undefined.
Object(props) == SelectSeq(props, IsDefined)

StudentObject(id, firstName, lastName, year) ==
    Object(<<Prop("id", id), Prop("firstName", firstName),
             Prop("lastName", lastName), Prop("year", year)>>)

\* req.params.id is always a (non-empty) string
PathIds == {Str(<<"7">>), Str(<<"0", "7">>)}

\* req.body of POST /students: a body that passes validation (with a
\* property the handler does not read) and bodies that fail each test of the
\* validation.
ValidPostBodies ==
    { Append(StudentObject(Num(7), Str(<<"C">>), Str(<<"Y">>), Num(4)),
             Prop("grade", Str(<<"a">>))) }

InvalidPostBodies ==
    { StudentObject(Num(0), Str(<<"A">>), Str(<<"Z">>), Num(4)),
      StudentObject(Num(7), Str(<<>>), Str(<<"Z">>), Num(4)),
      StudentObject(Num(7), Str(<<"A">>), Undefined, Num(4)),
      StudentObject(Str(<<"7">>), Str(<<"A">>), Str(<<"Z">>), Str(<<"3">>)) }

PostBodies == ValidPostBodies \cup InvalidPostBodies

\* req.body of PUT /students/:id: no field, and an id beside an empty
\* firstName and a string as year
PutBodies ==
    { StudentObject(Undefined, Undefined, Undefined, Undefined),
      StudentObject(Num(8), Str(<<>>), Undefined, Str(<<"3">>)) }

OnlyYear == StudentObject(Undefined, Undefined, Undefined, Num(4))

\* PUT requests, as path id and body: the bodies above on the path "7", and
\* the body {year: 4} on the path "07"
PutRequests ==
    ({Str(<<"7">>)} \X PutBodies) \cup {<<Str(<<"0", "7">>), OnlyYear>>}

\* students.json when the server starts: missing or malformed, or an array
\* of student objects with no two strictly equal ids.
Student7  == StudentObject(Num(7), Str(<<"A">>), Str(<<"Z">>), Num(3))

StudentS7 == StudentObject(Str(<<"7">>), Str(<<"B">>), Str(<<"Z">>), Num(3))

Malformed == [valid |-> FALSE, text |-> <<>>]

File(data) == [valid |-> TRUE, text |-> JsonStringify(data)]

InitialFiles ==
    { Malformed, File(<<>>), File(<<StudentS7>>), File(<<StudentS7, Student7>>) }

Init ==
    /\ database \in InitialFiles
    /\ pc = [r \in Requests |-> "idle"]
    /\ method = [r \in Requests |-> "none"]
    /\ params = [r \in Requests |-> Undefined]
    /\ body = [r \in Requests |-> <<>>]
    /\ students = [r \in Requests |-> <<>>]
    /\ idx = [r \in Requests |-> 0]
    /\ text = [r \in Requests |-> <<>>]
    /\ status = [r \in Requests |-> 0]
    /\ resBody = [r \in Requests |-> NoBody]
    /\ ver = 0
    /\ arriveVer = [r \in Requests |-> -1]
    /\ loadVer = [r \in Requests |-> -1]
    /\ saveVer = [r \in Requests |-> -1]
    /\ loaded = [r \in Requests |-> <<>>]

(***************************************************************************)
(* Helpers of the handlers.                                                *)
(***************************************************************************)
\* the result of students.find(...): an element, or undefined
Found(student) == [found |-> TRUE, student |-> student]

NotFound == [found |-> FALSE, student |-> <<>>]

RECURSIVE Find_Strict(_, _)
\* Faulty variant of Find: the ids are compared with === instead of ==.
Find_Strict(data, id) ==
    IF data = <<>> THEN NotFound
    ELSE IF StrictEquals(Get(Head(data), "id"), id) THEN Found(Head(data))
    ELSE Find_Strict(Tail(data), id)

RECURSIVE Find(_, _)
\* students.find(s => s.id == id): the first element, in order, whose id
\* loosely equals id
Find(data, id) ==
    IF data = <<>> THEN NotFound
    ELSE IF LooseEquals(Get(Head(data), "id"), id) THEN Found(Head(data))
    ELSE Find(Tail(data), id)

\* Faulty variant of FindIndex: where JavaScript gives -1 the last element is
\* taken (an index of -1 read as "last").
FindIndex_LastWhenMissing(data, id) ==
    IF \E i \in 1 .. Len(data) : LooseEquals(Get(data[i], "id"), id)
    THEN CHOOSE i \in 1 .. Len(data) :
            /\ LooseEquals(Get(data[i], "id"), id)
            /\ \A j \in 1 .. i - 1 : ~LooseEquals(Get(data[j], "id"), id)
    ELSE Len(data)

\* Faulty variant of FindIndex: the last matching element is taken
\* (findLastIndex).
FindIndex_LastMatch(data, id) ==
    IF \E i \in 1 .. Len(data) : LooseEquals(Get(data[i], "id"), id)
    THEN CHOOSE i \in 1 .. Len(data) :
            /\ LooseEquals(Get(data[i], "id"), id)
            /\ \A j \in i + 1 .. Len(data) : ~LooseEquals(Get(data[j], "id"), id)
    ELSE 0

\* students.findIndex(s => s.id == id): the position (from 1) of the first
\* element whose id loosely equals id, 0 where JavaScript gives -1.
FindIndex(data, id) ==
    IF \E i \in 1 .. Len(data) : LooseEquals(Get(data[i], "id"), id)
    THEN CHOOSE i \in 1 .. Len(data) :
            /\ LooseEquals(Get(data[i], "id"), id)
            /\ \A j \in 1 .. i - 1 : ~LooseEquals(Get(data[j], "id"), id)
    ELSE 0

\* Faulty variant of SomeStrictId: only the first record is compared.
SomeStrictId_FirstOnly(data, id) ==
    Len(data) > 0 /\ StrictEquals(Get(data[1], "id"), id)

\* Faulty variant of SomeStrictId: the last record is not compared.
SomeStrictId_SkipsLast(data, id) ==
    \E i \in 1 .. Len(data) - 1 : StrictEquals(Get(data[i], "id"), id)

\* Faulty variant of SomeStrictId: the conflict check is missing.
SomeStrictId_Never(data, id) == FALSE

\* students.some(s => s.id === id)
SomeStrictId(data, id) ==
    \E i \in 1 .. Len(data) : StrictEquals(Get(data[i], "id"), id)

\* Faulty variant of InvalidBody: year is tested for truthiness, not for its
\* type.
InvalidBody_YearTruthy(b) ==
    \/ ~Truthy(Get(b, "id"))
    \/ ~Truthy(Get(b, "firstName"))
    \/ ~Truthy(Get(b, "lastName"))
    \/ ~Truthy(Get(b, "year"))

\* !id || !firstName || !lastName || typeof year !== "number"
InvalidBody(b) ==
    \/ ~Truthy(Get(b, "id"))
    \/ ~Truthy(Get(b, "firstName"))
    \/ ~Truthy(Get(b, "lastName"))
    \/ TypeOf(Get(b, "year")) # "number"

\* Faulty variant of NewStudent: the whole body is stored, {...req.body}.
NewStudent_WholeBody(b) == b

\* const newStudent = {id, firstName, lastName, year}
NewStudent(b) ==
    <<Prop("id", Get(b, "id")), Prop("firstName", Get(b, "firstName")),
      Prop("lastName", Get(b, "lastName")), Prop("year", Get(b, "year"))>>

\* Faulty variant of Assign: the field is tested for truthiness, if(x), instead
\* of x !== undefined.
Assign_IfTruthy(student, b, k) ==
    IF Truthy(Get(b, k)) THEN Put(student, k, Get(b, k)) ELSE student

\* if(x !== undefined){student.k = x} for one field k of the body
Assign(student, b, k) ==
    IF Get(b, k) # Undefined THEN Put(student, k, Get(b, k)) ELSE student

\* Faulty variant of Merge: a numeric year is added to the stored one,
\* students[idx].year += year.
Merge_AddsYear(student, b) ==
    LET named == Assign(Assign(student, b, "firstName"), b, "lastName")
        year  == Get(b, "year")
        was   == Get(student, "year")
    IN  IF year.t = "number" /\ was.t = "number"
        THEN Put(named, "year", Num(was.n + year.n))
        ELSE Assign(named, b, "year")

\* Faulty variant of Merge: the id of the body is assigned as well.
Merge_WithId(student, b) ==
    Assign(Assign(Assign(Assign(student, b, "id"), b, "firstName"), b, "lastName"),
           b, "year")

\* Faulty variant of Merge: a year that is not a number is ignored.
Merge_NumericYear(student, b) ==
    LET named == Assign(Assign(student, b, "firstName"), b, "lastName")
    IN  IF Get(b, "year").t = "number" THEN Assign(named, b, "year") ELSE named

\* the three assignments of PUT on students[idx]
Merge(student, b) ==
    Assign(Assign(Assign(student, b, "firstName"), b, "lastName"), b, "year")

\* res.status(code).json(b), after which the handler returns
Respond(r, code, b) ==
    /\ status' = [status EXCEPT ![r] = code]
    /\ resBody' = [resBody EXCEPT ![r] = b]
    /\ pc' = [pc EXCEPT ![r] = "done"]

\* The request reaches a handler, which runs up to `await readDB()`.
\* Requests are numbered in their order of arrival.
Arrive(r, m, id, b) ==
    /\ pc[r] = "idle"
    /\ \A q \in 1 .. r - 1 : pc[q] # "idle"
    /\ method' = [method EXCEPT ![r] = m]
    /\ params' = [params EXCEPT ![r] = id]
    /\ body' = [body EXCEPT ![r] = b]
    /\ arriveVer' = [arriveVer EXCEPT ![r] = ver]

\* readDB() resolves: fs.readFile gave the text and JSON.parse accepted it
ReadDB(r, m) ==
    /\ pc[r] = "readDB"
    /\ method[r] = m
    /\ database.valid
    /\ loadVer' = [loadVer EXCEPT ![r] = ver]
    /\ loaded' = [loaded EXCEPT ![r] = JsonParse(database.text)]

\* Faulty variant of WriteDB: what the handler added to its snapshot is
\* appended to the file as it is now, instead of the file being replaced.
WriteDB_Appending(r, m) ==
    /\ pc[r] = "writeDB"
    /\ method[r] = m
    /\ database' = [valid |-> TRUE,
                    text  |-> IF database.valid
                              THEN database.text \o
                                   SubSeq(text[r], Len(loaded[r]) + 1, Len(text[r]))
                              ELSE text[r]]
    /\ ver' = ver + 1
    /\ saveVer' = [saveVer EXCEPT ![r] = ver + 1]

\* writeDB(data) resolves: fs.writeFile replaced the file by text
WriteDB(r, m) ==
    /\ pc[r] = "writeDB"
    /\ method[r] = m
    /\ database' = [valid |-> TRUE, text |-> text[r]]
    /\ ver' = ver + 1
    /\ saveVer' = [saveVer EXCEPT ![r] = ver + 1]

\* the message of each handler's catch block
CatchMessage(m) ==
    CASE m = "LIST" -> "Server Failed to read all students."
      [] m = "GET"  -> "Server failed to read students"
      [] m = "POST" -> "Server cannot add student"
      [] m = "PUT"  -> "Server cannot update student."

(***************************************************************************)
(* GET /students                                                           *)
(***************************************************************************)
ListStudents(r) ==
    /\ Arrive(r, "LIST", Undefined, <<>>)
    /\ pc' = [pc EXCEPT ![r] = "readDB"]
    /\ UNCHANGED <<database, students, idx, text, status, resBody, ver,
                   loadVer, saveVer, loaded>>

ListStudentsRead(r) ==
    /\ ReadDB(r, "LIST")
    /\ students' = [students EXCEPT ![r] = JsonParse(database.text)]
    /\ Respond(r, 200, JsonArray(students'[r]))
    /\ UNCHANGED <<database, arriveVer, method, params, body, idx, text, ver, saveVer>>

(***************************************************************************)
(* GET /students/:id                                                       *)
(***************************************************************************)
GetStudent(r, id) ==
    /\ Arrive(r, "GET", id, <<>>)
    /\ pc' = [pc EXCEPT ![r] = "readDB"]
    /\ UNCHANGED <<database, students, idx, text, status, resBody, ver,
                   loadVer, saveVer, loaded>>

GetStudentRead(r) ==
    /\ ReadDB(r, "GET")
    /\ students' = [students EXCEPT ![r] = JsonParse(database.text)]
    /\ LET student == Find(students'[r], params[r])
       IN  IF ~student.found
           THEN Respond(r, 404, JsonError("Student not found"))
           ELSE Respond(r, 200, JsonObject(student.student))
    /\ UNCHANGED <<database, arriveVer, method, params, body, idx, text, ver, saveVer>>

(***************************************************************************)
(* POST /students                                                          *)
(***************************************************************************)
\* Faulty variant of PostStudent: the file is looked at before the body is
\* validated, so an unreadable file is reported before an invalid body.
PostStudent_ReadsFirst(r, b) ==
    /\ Arrive(r, "POST", Undefined, b)
    /\ IF ~database.valid
       THEN Respond(r, 500, JsonError(CatchMessage("POST")))
       ELSE IF InvalidBody(b)
       THEN Respond(r, 400, JsonError("Invalid Body. Required: ID, firstName, lastName, year (number)."))
       ELSE /\ pc' = [pc EXCEPT ![r] = "readDB"]
            /\ UNCHANGED <<status, resBody>>
    /\ UNCHANGED <<database, students, idx, text, ver, loadVer, saveVer, loaded>>

PostStudent(r, b) ==
    /\ Arrive(r, "POST", Undefined, b)
    /\ IF InvalidBody(b)
       THEN Respond(r, 400, JsonError("Invalid Body. Required: ID, firstName, lastName, year (number)."))
       ELSE /\ pc' = [pc EXCEPT ![r] = "readDB"]
            /\ UNCHANGED <<status, resBody>>
    /\ UNCHANGED <<database, students, idx, text, ver, loadVer, saveVer, loaded>>

PostStudentRead(r) ==
    /\ ReadDB(r, "POST")
    /\ LET data == JsonParse(database.text)
       IN  IF SomeStrictId(data, Get(body[r], "id"))
           THEN /\ students' = [students EXCEPT ![r] = data]
                /\ Respond(r, 409, JsonError("ID already exists."))
                /\ UNCHANGED text
           ELSE /\ students' = [students EXCEPT ![r] = Append(data, NewStudent(body[r]))]
                /\ text' = [text EXCEPT ![r] = JsonStringify(students'[r])]
                /\ pc' = [pc EXCEPT ![r] = "writeDB"]
                /\ UNCHANGED <<status, resBody>>
    /\ UNCHANGED <<database, arriveVer, method, params, body, idx, ver, saveVer>>

PostStudentWritten(r) ==
    /\ WriteDB(r, "POST")
    /\ Respond(r, 201, JsonObject(students[r][Len(students[r])]))
    /\ UNCHANGED <<arriveVer, method, params, body, students, idx, text, loadVer, loaded>>

(***************************************************************************)
(* PUT /students/:id                                                       *)
(***************************************************************************)
PutStudent(r, id, b) ==
    /\ Arrive(r, "PUT", id, b)
    /\ pc' = [pc EXCEPT ![r] = "readDB"]
    /\ UNCHANGED <<database, students, idx, text, status, resBody, ver,
                   loadVer, saveVer, loaded>>

PutStudentRead(r) ==
    /\ ReadDB(r, "PUT")
    /\ LET data == JsonParse(database.text)
           i    == FindIndex(data, params[r])
       IN  IF i = 0
           THEN /\ students' = [students EXCEPT ![r] = data]
                /\ Respond(r, 404, JsonError("Student not found."))
                /\ UNCHANGED <<idx, text>>
           ELSE /\ students' = [students EXCEPT ![r] =
                                   [data EXCEPT ![i] = Merge(data[i], body[r])]]
                /\ idx' = [idx EXCEPT ![r] = i]
                /\ text' = [text EXCEPT ![r] = JsonStringify(students'[r])]
                /\ pc' = [pc EXCEPT ![r] = "writeDB"]
                /\ UNCHANGED <<status, resBody>>
    /\ UNCHANGED <<database, arriveVer, method, params, body, ver, saveVer>>

PutStudentWritten(r) ==
    /\ WriteDB(r, "PUT")
    /\ Respond(r, 200, JsonObject(students[r][idx[r]]))
    /\ UNCHANGED <<arriveVer, method, params, body, students, idx, text, loadVer, loaded>>

(***************************************************************************)
(* Storage failures: the awaited promise rejects and the handler's catch   *)
(* block answers 500.                                                      *)
(***************************************************************************)
\* readDB() rejects: fs.readFile fails (at any time), or JSON.parse throws on
\* a malformed file.  ReadDB above needs a well-formed file, so a malformed
\* one leaves only this outcome.
\* Faulty variant of ReadFails: the rejection is not caught, the handler ends
\* and nothing is sent.
ReadFails_Uncaught(r) ==
    /\ pc[r] = "readDB"
    /\ pc' = [pc EXCEPT ![r] = "done"]
    /\ UNCHANGED <<database, arriveVer, method, params, body, students, idx, text, ver,
                   loadVer, saveVer, loaded, status, resBody>>

ReadFails(r) ==
    /\ pc[r] = "readDB"
    /\ Respond(r, 500, JsonError(CatchMessage(method[r])))
    /\ UNCHANGED <<database, arriveVer, method, params, body, students, idx, text, ver,
                   loadVer, saveVer, loaded>>

\* What a rejected fs.writeFile(database, text, 'utf-8') leaves behind.
\* fs.writeFile opens the file with flag 'w', which truncates it, and then
\* writes: a failure to open leaves the file as it was; a failure after the
\* open (disk full, I/O error) leaves it empty or partial, which is not JSON.
FailedWrite(truncated) == IF truncated THEN Malformed ELSE database

\* writeDB() rejects
WriteFails(r, truncated) ==
    /\ pc[r] = "writeDB"
    /\ database' = FailedWrite(truncated)
    /\ ver' = IF truncated THEN ver + 1 ELSE ver
    /\ saveVer' = IF truncated THEN [saveVer EXCEPT ![r] = ver + 1] ELSE saveVer
    /\ Respond(r, 500, JsonError(CatchMessage(method[r])))
    /\ UNCHANGED <<arriveVer, method, params, body, students, idx, text, loadVer, loaded>>

Next ==
    \E r \in Requests :
        \/ ListStudents(r)
        \/ ListStudentsRead(r)
        \/ \E id \in PathIds : GetStudent(r, id)
        \/ GetStudentRead(r)
        \/ \E b \in PostBodies : PostStudent(r, b)
        \/ PostStudentRead(r)
        \/ PostStudentWritten(r)
        \/ \E p \in PutRequests : PutStudent(r, p[1], p[2])
        \/ PutStudentRead(r)
        \/ PutStudentWritten(r)
        \/ ReadFails(r)
        \/ \E truncated \in BOOLEAN : WriteFails(r, truncated)

Spec == Init /\ [][Next]_vars

\* A handler suspended at `await readDB()` or `await writeDB()` is resumed:
\* the promise of fs.readFile or fs.writeFile settles, fulfilled or rejected,
\* and the event loop runs the continuation.
Resume(r) ==
    \/ ReadFails(r)
    \/ \E truncated \in BOOLEAN : WriteFails(r, truncated)
    \/ ListStudentsRead(r)
    \/ GetStudentRead(r)
    \/ PostStudentRead(r)
    \/ PostStudentWritten(r)
    \/ PutStudentRead(r)
    \/ PutStudentWritten(r)

FairSpec == Spec /\ \A r \in Requests : WF_vars(Resume(r))

(***************************************************************************)
(* Vocabulary of the properties.                                           *)
(***************************************************************************)
Answered(r) == pc[r] = "done"

\* r's readDB resolved
Loaded(r) == loadVer[r] # -1

\* r's writeDB changed students.json
Touched(r) == saveVer[r] # -1

\* the collection students.json holds
Persisted == JsonParse(database.text)

BodyId(r) == Get(body[r], "id")

\* the path a client uses to address a record by its id
PathOf(id) == IF id.t = "string" THEN Str(id.s) ELSE Str(NumberToString(id.n))

\* the JSON text {id, firstName, lastName, year} of the four submitted fields
Submitted(b) ==
    <<Member("id", StringifyValue(Get(b, "id"))),
      Member("firstName", StringifyValue(Get(b, "firstName"))),
      Member("lastName", StringifyValue(Get(b, "lastName"))),
      Member("year", StringifyValue(Get(b, "year")))>>

HasStrictId(data, id) == \E i \in 1 .. Len(data) : Get(data[i], "id") = id

IsErrorBody(b) ==
    /\ ~b.array
    /\ Len(b.items) = 1
    /\ Len(b.items[1]) = 1
    /\ b.items[1][1].k = "error"

(***************************************************************************)
(* C1.  A valid create (id, firstName, lastName truthy, year a number, no  *)
(* stored record with a strictly equal id), handled without storage        *)
(* failure and with no write of another request between its load and its   *)
(* save, is answered 201 with exactly the four submitted fields, and a     *)
(* get-by-id for that id that arrives after this answer and loads the      *)
(* collection this create saved is answered 200 with that same object.     *)
(***************************************************************************)
ValidCreate(c) ==
    /\ method[c] = "POST"
    /\ Answered(c)
    /\ status[c] # 500
    /\ ~InvalidBody(body[c])
    /\ Loaded(c)
    /\ ~HasStrictId(loaded[c], BodyId(c))
    /\ saveVer[c] = loadVer[c] + 1

GetRightAfter(g, c) ==
    /\ method[g] = "GET"
    /\ Answered(g)
    /\ status[g] # 500
    /\ params[g] = PathOf(BodyId(c))
    /\ arriveVer[g] = saveVer[c]
    /\ loadVer[g] = saveVer[c]

C1_CreateThenGet ==
    \A c \in Requests : ValidCreate(c) =>
        /\ status[c] = 201
        /\ resBody[c] = [array |-> FALSE, items |-> <<Submitted(body[c])>>]
        /\ \A g \in Requests : GetRightAfter(g, c) =>
              /\ status[g] = 200
              /\ resBody[g] = resBody[c]

(***************************************************************************)
(* C2.  Original statement: a create request whose id is strictly equal to *)
(* the id of a record in the persisted collection is answered 409 whatever *)
(* its other fields, and does not change the file.  Stated for a file that *)
(* no request has written, so that the persisted collection is the same    *)
(* from the arrival of the request to its answer.                          *)
(***************************************************************************)
C2_DuplicateAlways409 ==
    \A c \in Requests :
        ( /\ method[c] = "POST"
          /\ Answered(c)
          /\ ver = 0
          /\ database.valid
          /\ HasStrictId(Persisted, BodyId(c)) )
        => status[c] = 409

(***************************************************************************)
(* C2, amended.  A create request that passes validation and whose load    *)
(* succeeds, with an id strictly equal to the id of a record of the        *)
(* collection it loaded, is answered 409 with an error body whatever its   *)
(* other fields, and never writes the file.                                *)
(***************************************************************************)
C2_DuplicateValid409 ==
    \A c \in Requests :
        (method[c] = "POST" /\ Loaded(c) /\ HasStrictId(loaded[c], BodyId(c)))
        => /\ Answered(c)
           /\ status[c] = 409
           /\ IsErrorBody(resBody[c])
           /\ ~Touched(c)
           /\ text[c] = <<>>

\* a 409 for a body whose other fields all differ from the stored record's
C2_Witness ==
    \E c \in Requests : \E i \in 1 .. Len(loaded[c]) :
        /\ method[c] = "POST"
        /\ status[c] = 409
        /\ Get(loaded[c][i], "id") = BodyId(c)
        /\ \A k \in {"firstName", "lastName", "year"} :
              Get(loaded[c][i], k) # Get(body[c], k)
        /\ database.valid
        /\ Persisted = loaded[c]

(***************************************************************************)
(* C3.  The persisted collection never holds two records with strictly     *)
(* equal ids, whatever requests run and however they interleave.           *)
(***************************************************************************)
C3_UniqueIds ==
    database.valid =>
        LET ids == [i \in 1 .. Len(database.text) |-> Get(Persisted[i], "id")]
        IN  \A i, j \in 1 .. Len(ids) : ids[i] = ids[j] => i = j

\* two creates with the same id raced, both were answered 201, and the file
\* holds more than one record
C3_Witness ==
    \E a, b \in Requests :
        /\ a # b
        /\ method[a] = "POST" /\ status[a] = 201
        /\ method[b] = "POST" /\ status[b] = 201
        /\ BodyId(a) = BodyId(b)
        /\ database.valid
        /\ Len(Persisted) > 1

(***************************************************************************)
(* C4.  Lost update.  Two mutating requests (create or update) that both   *)
(* loaded the same snapshot before either saved are both answered with     *)
(* success, and once both have saved the file holds the snapshot with only *)
(* the change of the request that saved last: the other change is lost.    *)
(***************************************************************************)
Mutating(r) == method[r] \in {"POST", "PUT"}

Succeeded(r) == Answered(r) /\ status[r] \in {200, 201}

UpdatableFields == {"firstName", "lastName", "year"}

\* a stored record with the fields the body gives overwritten
Overwritten(old, b) ==
    [j \in 1 .. Len(old) |->
        IF old[j].k \in UpdatableFields /\ HasKey(b, old[j].k)
        THEN Prop(old[j].k, Get(b, old[j].k))
        ELSE old[j]]

\* the snapshot r loaded with the change that r alone asks for
OnlyChangeOf(r) ==
    IF method[r] = "POST"
    THEN Append(loaded[r],
                <<Prop("id", Get(body[r], "id")),
                  Prop("firstName", Get(body[r], "firstName")),
                  Prop("lastName", Get(body[r], "lastName")),
                  Prop("year", Get(body[r], "year"))>>)
    ELSE [loaded[r] EXCEPT ![idx[r]] = Overwritten(loaded[r][idx[r]], body[r])]

\* a and b loaded the same snapshot, both succeeded, b saved last and the
\* file has not been written since
Raced(a, b) ==
    /\ a # b
    /\ Mutating(a) /\ Succeeded(a)
    /\ Mutating(b) /\ Succeeded(b)
    /\ loadVer[a] = loadVer[b]
    /\ saveVer[a] < saveVer[b]
    /\ ver = saveVer[b]

C4_LostUpdate ==
    \A a, b \in Requests : Raced(a, b) =>
        /\ loaded[a] = loaded[b]
        /\ database.valid
        /\ Persisted = OnlyChangeOf(b)

\* a create answered 201 whose record is not in the file, after a race with
\* an update that changed a record
C4_Witness ==
    \E a, b \in Requests :
        /\ Raced(a, b)
        /\ method[a] = "POST"
        /\ method[b] = "PUT"
        /\ ~HasStrictId(Persisted, BodyId(a))
        /\ Persisted # loaded[b]

(***************************************************************************)
(* C5.  A PUT whose path id loosely equals the id of no record of the      *)
(* collection it loaded is answered 404 with an error body and performs no *)
(* save: it never writes the file.                                         *)
(***************************************************************************)
NoLooseMatch(data, id) ==
    \A i \in 1 .. Len(data) : ~LooseEquals(Get(data[i], "id"), id)

C5_PutMissing404 ==
    \A r \in Requests :
        (method[r] = "PUT" /\ Loaded(r) /\ NoLooseMatch(loaded[r], params[r]))
        => /\ Answered(r)
           /\ status[r] = 404
           /\ IsErrorBody(resBody[r])
           /\ ~Touched(r)
           /\ text[r] = <<>>

\* a 404 on a collection that is not empty and that is still the file
C5_Witness ==
    \E r \in Requests :
        /\ method[r] = "PUT"
        /\ status[r] = 404
        /\ Len(loaded[r]) > 0
        /\ body[r] # <<>>
        /\ database.valid
        /\ Persisted = loaded[r]

(***************************************************************************)
(* C6.  A create request is answered 400 whenever id, firstName or         *)
(* lastName is missing or falsy, or year is not a number (a numeric string *)
(* such as "3" included); a request answered 400 has neither read nor      *)
(* written the file.                                                       *)
(***************************************************************************)
MissingOrFalsy(v) == v \in {Undefined, Null, Num(0), Str(<<>>)}

NotANumber(v) == v.t \in {"undefined", "null", "string"}

Rejectable(b) ==
    \/ MissingOrFalsy(Get(b, "id"))
    \/ MissingOrFalsy(Get(b, "firstName"))
    \/ MissingOrFalsy(Get(b, "lastName"))
    \/ NotANumber(Get(b, "year"))

C6_Invalid400 ==
    \A r \in Requests :
        /\ (method[r] = "POST" /\ Rejectable(body[r]))
           => (Answered(r) /\ status[r] = 400 /\ IsErrorBody(resBody[r]))
        /\ status[r] = 400 => (~Loaded(r) /\ ~Touched(r) /\ text[r] = <<>>)

\* a 400 for a body whose only fault is the numeric string "3" as year
C6_Witness ==
    \E r \in Requests :
        /\ status[r] = 400
        /\ Get(body[r], "year") = Str(<<"3">>)
        /\ Truthy(Get(body[r], "id"))
        /\ Truthy(Get(body[r], "firstName"))
        /\ Truthy(Get(body[r], "lastName"))

(***************************************************************************)
(* C7.  After a successful PUT each of firstName, lastName, year that the  *)
(* body holds has the body's value on the located record and each one the  *)
(* body lacks has the value it had when loaded; the response body is the    *)
(* record as it was written to the file.                                   *)
(***************************************************************************)
C7_PutMerges ==
    \A r \in Requests : (method[r] = "PUT" /\ status[r] = 200) =>
        LET old == loaded[r][idx[r]]
            new == students[r][idx[r]]
        IN  /\ \A k \in UpdatableFields :
                  Get(new, k) = IF HasKey(body[r], k) THEN Get(body[r], k)
                                ELSE Get(old, k)
            /\ JsonParse(resBody[r].items) = <<new>>
            /\ resBody[r].items = <<text[r][idx[r]]>>
            /\ ver = saveVer[r] => database.text[idx[r]] = resBody[r].items[1]

\* a body of only {year: 4} changed year from 3 to 4 and nothing else
C7_Witness ==
    \E r \in Requests :
        /\ method[r] = "PUT"
        /\ status[r] = 200
        /\ body[r] = <<Prop("year", Num(4))>>
        /\ Get(loaded[r][idx[r]], "year") = Num(3)
        /\ Get(students[r][idx[r]], "year") = Num(4)
        /\ Get(students[r][idx[r]], "firstName") = Get(loaded[r][idx[r]], "firstName")
        /\ Get(students[r][idx[r]], "lastName") = Get(loaded[r][idx[r]], "lastName")

(***************************************************************************)
(* C8.  PUT is idempotent.  Of two PUT requests with the same path id and  *)
(* the same body, neither hit by a storage failure, the second arriving    *)
(* after the answer to the first and loading what the first left, both     *)
(* get the same status and body, and the second writes the collection the  *)
(* first wrote, with the same stored record.                               *)
(***************************************************************************)
SamePutTwice(a, b) ==
    /\ a < b
    /\ method[a] = "PUT" /\ Answered(a) /\ status[a] # 500
    /\ method[b] = "PUT" /\ Answered(b) /\ status[b] # 500
    /\ params[a] = params[b]
    /\ body[a] = body[b]
    /\ IF Touched(a)
       THEN arriveVer[b] = saveVer[a] /\ loadVer[b] = saveVer[a]
       ELSE loadVer[b] = loadVer[a]

C8_PutIdempotent ==
    \A a, b \in Requests : SamePutTwice(a, b) =>
        /\ status[b] = status[a]
        /\ resBody[b] = resBody[a]
        /\ text[b] = text[a]
        /\ students[b] = students[a]
        /\ idx[b] = idx[a]
        /\ (Touched(b) /\ ver = saveVer[b]) => database.text = text[a]

\* the first PUT changed the record, the second one found it changed
C8_Witness ==
    \E a, b \in Requests :
        /\ SamePutTwice(a, b)
        /\ status[a] = 200
        /\ status[b] = 200
        /\ loaded[a] # students[a]
        /\ loaded[b] = students[a]
        /\ ver = saveVer[b]

(***************************************************************************)
(* C9.  Get-by-id answers 200 with the first record, in collection order,  *)
(* whose id loosely equals the path value (a stored number 7 for the path  *)
(* "7"), and answers 404 with an error body exactly when no record         *)
(* loosely matches.                                                        *)
(***************************************************************************)
LooseMatches(data, id) ==
    {i \in 1 .. Len(data) : LooseEquals(Get(data[i], "id"), id)}

Least(S) == CHOOSE i \in S : \A j \in S : i <= j

C9_GetLooseFirst ==
    \A r \in Requests : (method[r] = "GET" /\ Loaded(r)) =>
        LET hits == LooseMatches(loaded[r], params[r])
        IN  /\ Answered(r)
            /\ hits = {} => (status[r] = 404 /\ IsErrorBody(resBody[r]))
            /\ hits # {} =>
                  /\ status[r] = 200
                  /\ JsonParse(resBody[r].items) = <<loaded[r][Least(hits)]>>

\* the path "7" answered with a record whose stored id is the number 7
C9_Witness ==
    \E r \in Requests :
        /\ method[r] = "GET"
        /\ status[r] = 200
        /\ params[r] = Str(<<"7">>)
        /\ resBody[r].items[1][1] = Member("id", Token(FALSE, <<"7">>))

(***************************************************************************)
(* C10.  A request answered 500 after a storage failure at load or at save *)
(* carries an error body and has left the file as it was.                  *)
(***************************************************************************)
C10_FailureKeepsFile ==
    \A r \in Requests : status[r] = 500 =>
        /\ IsErrorBody(resBody[r])
        /\ ~Touched(r)


(***************************************************************************)
(* C11.  Round trip.  Parsing the file, serialising the result and parsing *)
(* again gives the collection of the first parse; and a request that saves *)
(* the collection it loaded without changing it (a PUT with an empty body  *)
(* on an existing record) leaves a file whose next load returns the same   *)
(* records, in the same order, with the same field values.                 *)
(***************************************************************************)
SavesUnmodified(r) ==
    /\ method[r] = "PUT"
    /\ status[r] = 200
    /\ body[r] = <<>>
    /\ ver = saveVer[r]

C11_RoundTrip ==
    /\ database.valid =>
          LET data == JsonParse(database.text)
          IN  JsonParse(JsonStringify(data)) = data
    /\ \A r \in Requests : SavesUnmodified(r) =>
          /\ database.valid
          /\ JsonParse(database.text) = loaded[r]

\* an unmodified save of a collection that holds a string id, a number id,
\* strings and numbers
C11_Witness ==
    \E r \in Requests :
        /\ SavesUnmodified(r)
        /\ Len(loaded[r]) = 2
        /\ Get(loaded[r][1], "id") = Str(<<"7">>)
        /\ Get(loaded[r][2], "id") = Num(7)

(***************************************************************************)
(* C12.  The read endpoints never write: no step of a GET /students or a   *)
(* GET /students/:id request changes the file, whatever its outcome; and   *)
(* GET /students answered 200 carries exactly the collection the file held *)
(* at the moment of its load, all records in stored order.                 *)
(***************************************************************************)
ReadOnly(r) == method[r] \in {"LIST", "GET"}

StepOf(r) == pc'[r] # pc[r]

ReadStepKeepsFile ==
    \A r \in Requests :
        (StepOf(r) /\ method'[r] \in {"LIST", "GET"})
        => /\ database' = database
           /\ ver' = ver
           /\ text'[r] = <<>>
           /\ pc'[r] # "writeDB"

ListAnswersFile ==
    \A r \in Requests :
        (method[r] = "LIST" /\ status[r] = 0 /\ status'[r] = 200)
        => /\ resBody'[r].array
           /\ JsonParse(resBody'[r].items) = JsonParse(database.text)

C12_ReadsNeverWrite == [][ReadStepKeepsFile /\ ListAnswersFile]_vars

\* a list of two records answered 200 and a get answered 500, the file as
\* it was at the start
C12_Witness ==
    \E l, g \in Requests :
        /\ method[l] = "LIST" /\ status[l] = 200
        /\ Len(resBody[l].items) = 2
        /\ method[g] = "GET" /\ status[g] = 500
        /\ ver = 0
        /\ database = File(<<StudentS7, Student7>>)

(***************************************************************************)
(* C13.  A successful create writes the collection it loaded with exactly  *)
(* one record appended at the end; the new record holds exactly the four   *)
(* fields id, firstName, lastName, year of the body (other body fields are *)
(* dropped) and every record loaded keeps its content and its position.    *)
(***************************************************************************)
FourFields(b) ==
    <<Prop("id", Get(b, "id")), Prop("firstName", Get(b, "firstName")),
      Prop("lastName", Get(b, "lastName")), Prop("year", Get(b, "year"))>>

C13_CreateAppendsOne ==
    \A r \in Requests : (method[r] = "POST" /\ status[r] = 201) =>
        /\ JsonParse(text[r]) = Append(loaded[r], FourFields(body[r]))
        /\ ver = saveVer[r] =>
              /\ database.valid
              /\ Persisted = Append(loaded[r], FourFields(body[r]))

\* a create whose body held a fifth field, appended to a collection that was
\* not empty
C13_Witness ==
    \E r \in Requests :
        /\ method[r] = "POST"
        /\ status[r] = 201
        /\ HasKey(body[r], "grade")
        /\ Len(loaded[r]) > 0
        /\ ver = saveVer[r]
        /\ Len(Persisted) = Len(loaded[r]) + 1

(***************************************************************************)
(* C14.  A successful update keeps the id of the located record, every     *)
(* other record, and the number and order of the records: the collection   *)
(* it saves differs from the one it loaded at most in firstName, lastName  *)
(* and year of the located record.                                         *)
(***************************************************************************)
Keys(o) == {o[j].k : j \in 1 .. Len(o)}

SameBut(old, new, fields) ==
    \A k \in (Keys(old) \cup Keys(new)) \ fields :
        /\ HasKey(old, k)
        /\ HasKey(new, k)
        /\ Get(new, k) = Get(old, k)

C14_UpdateFrame ==
    \A r \in Requests : (method[r] = "PUT" /\ status[r] = 200) =>
        LET saved == JsonParse(text[r])
        IN  /\ Len(saved) = Len(loaded[r])
            /\ idx[r] \in 1 .. Len(saved)
            /\ \A i \in 1 .. Len(saved) :
                  IF i = idx[r]
                  THEN SameBut(loaded[r][i], saved[i], UpdatableFields)
                  ELSE saved[i] = loaded[r][i]
            /\ ver = saveVer[r] => (database.valid /\ Persisted = saved)

\* an update of one of two records whose body carried an id other than the
\* stored one
C14_Witness ==
    \E r \in Requests :
        /\ method[r] = "PUT"
        /\ status[r] = 200
        /\ Len(loaded[r]) = 2
        /\ HasKey(body[r], "id")
        /\ Get(body[r], "id") # Get(loaded[r][idx[r]], "id")
        /\ ver = saveVer[r]
        /\ Persisted # loaded[r]

(***************************************************************************)
(* C15.  Update and get-by-id match alike.  On every stored collection and *)
(* every path id, findIndex of PUT gives the position of the record find   *)
(* of GET returns (the first whose id loosely equals the path value) and   *)
(* gives -1 exactly when find gives undefined; a PUT and a GET that loaded *)
(* the same collection with the same path id locate the same record, and   *)
(* the one is answered 404 exactly when the other is.                      *)
(***************************************************************************)
SameLookup(g, p) ==
    /\ method[g] = "GET" /\ Loaded(g)
    /\ method[p] = "PUT" /\ Loaded(p)
    /\ params[g] = params[p]
    /\ loaded[g] = loaded[p]

C15_SameMatching ==
    /\ database.valid =>
          \A id \in PathIds :
              LET student == Find(Persisted, id)
                  i       == FindIndex(Persisted, id)
              IN  /\ student.found <=> i # 0
                  /\ student.found => student.student = Persisted[i]
    /\ \A g, p \in Requests : SameLookup(g, p) =>
          /\ status[g] = 404 <=> status[p] = 404
          /\ status[g] = 200 =>
                /\ idx[p] \in 1 .. Len(loaded[p])
                /\ resBody[g] = JsonObject(loaded[p][idx[p]])

\* a GET answered 200 and a PUT on the same collection and path, where two
\* records match the path loosely
C15_Witness ==
    \E g, p \in Requests :
        /\ SameLookup(g, p)
        /\ status[g] = 200
        /\ status[p] = 200
        /\ Cardinality(LooseMatches(loaded[p], params[p])) = 2
        /\ idx[p] = 1

(***************************************************************************)
(* C16.  Update validates nothing.  A PUT that loaded a collection with a  *)
(* matching record and whose save succeeded is answered 200 whatever the   *)
(* values of the body, and each of firstName, lastName, year that the body *)
(* defines is saved as given; a create whose body holds the same value for *)
(* the same field, where create does not accept it, is answered 400.       *)
(***************************************************************************)
CreateRefuses(k, v) ==
    IF k = "year" THEN NotANumber(v) ELSE MissingOrFalsy(v)

C16_PutNoValidation ==
    \A r \in Requests :
        (/\ method[r] = "PUT"
         /\ Answered(r)
         /\ Loaded(r)
         /\ ~NoLooseMatch(loaded[r], params[r])
         /\ status[r] # 500)
        => /\ status[r] = 200
           /\ \A k \in UpdatableFields : HasKey(body[r], k) =>
                 /\ Get(JsonParse(text[r])[idx[r]], k) = Get(body[r], k)
                 /\ \A c \in Requests :
                       (/\ method[c] = "POST"
                        /\ Get(body[c], k) = Get(body[r], k)
                        /\ CreateRefuses(k, Get(body[r], k)))
                       => status[c] = 400

\* an update that stored a string as year and an empty firstName, beside a
\* create refused for the same string as year
C16_Witness ==
    \E r, c \in Requests :
        /\ method[r] = "PUT"
        /\ status[r] = 200
        /\ ver = saveVer[r]
        /\ Get(body[r], "year") = Str(<<"3">>)
        /\ Get(Persisted[idx[r]], "year") = Str(<<"3">>)
        /\ Get(Persisted[idx[r]], "firstName") = Str(<<>>)
        /\ method[c] = "POST"
        /\ Get(body[c], "year") = Get(body[r], "year")
        /\ status[c] = 400

(***************************************************************************)
(* C17.  As stated: for any id, whatever the interleaving, at most one     *)
(* create request carrying that id is answered 201.                        *)
(***************************************************************************)
SameIdCreates(a, b) ==
    /\ a # b
    /\ method[a] = "POST"
    /\ method[b] = "POST"
    /\ BodyId(a) = BodyId(b)

C17_AtMostOne201 ==
    \A a, b \in Requests :
        SameIdCreates(a, b) => ~(status[a] = 201 /\ status[b] = 201)

(***************************************************************************)
(* C17, amended.  A create that loads the file exactly as a create         *)
(* answered 201 with a strictly equal id saved it is answered 409; two     *)
(* creates with the same id are both answered 201 only when neither loaded *)
(* a collection holding a record with that id.                             *)
(***************************************************************************)
C17_SequentialConflict ==
    \A a, b \in Requests : SameIdCreates(a, b) =>
        /\ (status[a] = 201 /\ Loaded(b) /\ loadVer[b] = saveVer[a])
           => status[b] = 409
        /\ (status[a] = 201 /\ status[b] = 201)
           => /\ ~HasStrictId(loaded[a], BodyId(a))
              /\ ~HasStrictId(loaded[b], BodyId(b))

\* a create answered 201, then one with the same id that loaded what the
\* first saved and was answered 409
C17_Witness ==
    \E a, b \in Requests :
        /\ SameIdCreates(a, b)
        /\ status[a] = 201
        /\ loadVer[b] = saveVer[a]
        /\ status[b] = 409

(***************************************************************************)
(* C18.  In create the body is validated before the store is touched: a    *)
(* create with an invalid body is answered 400 on arrival, without a load, *)
(* also when students.json is missing or malformed; a create waits for a   *)
(* load only with a valid body, and a 409 comes only after a successful    *)
(* load, of a collection holding a record with a strictly equal id.        *)
(***************************************************************************)
C18_ValidationFirst ==
    \A r \in Requests : method[r] = "POST" =>
        /\ Rejectable(body[r]) =>
              /\ Answered(r)
              /\ status[r] = 400
              /\ ~Loaded(r)
              /\ students[r] = <<>>
        /\ pc[r] = "readDB" => ~Rejectable(body[r])
        /\ status[r] = 409 =>
              /\ Loaded(r)
              /\ ~Rejectable(body[r])
              /\ HasStrictId(loaded[r], BodyId(r))

\* an invalid body answered 400 while the file has been malformed from the
\* start, beside a valid create answered 500 on the same file
C18_Witness ==
    \E r, c \in Requests :
        /\ method[r] = "POST"
        /\ status[r] = 400
        /\ ~database.valid
        /\ ver = 0
        /\ method[c] = "POST"
        /\ status[c] = 500

(***************************************************************************)
(* C19.  Every request that reached a handler is eventually answered, and  *)
(* answered once: its status and body never change afterwards and it takes *)
(* no further step.  The status is one the endpoint can give (list 200 or  *)
(* 500; get 200, 404 or 500; create 201, 400, 409 or 500; update 200, 404  *)
(* or 500), and a request answered with an error status writes nothing to  *)
(* students.json afterwards.                                               *)
(*                                                                         *)
(* "Eventually answered" is stated as: again and again no request is       *)
(* waiting.  A request that reached a handler stays out of "idle" and an   *)
(* answer once given stays (both are part of the formula), so each request *)
(* that reached a handler has its answer from the next such moment on.     *)
(***************************************************************************)
StatusesOf(m) ==
    CASE m = "LIST" -> {200, 500}
      [] m = "GET"  -> {200, 404, 500}
      [] m = "POST" -> {201, 400, 409, 500}
      [] m = "PUT"  -> {200, 404, 500}
      [] OTHER      -> {}

StatusOfEndpoint ==
    \A r \in Requests :
        /\ status[r] # 0 <=> Answered(r)
        /\ Answered(r) => status[r] \in StatusesOf(method[r])

AnsweredOnce ==
    \A r \in Requests :
        /\ pc[r] # "idle" => pc'[r] # "idle"
        /\ status[r] # 0 =>
              /\ status'[r] = status[r]
              /\ resBody'[r] = resBody[r]
              /\ pc'[r] = pc[r]
              /\ status[r] >= 400 =>
                    /\ saveVer'[r] = saveVer[r]
                    /\ text'[r] = text[r]

NoneWaiting == \A r \in Requests : pc[r] = "idle" \/ status[r] # 0

C19_EveryRequestAnswered ==
    /\ []StatusOfEndpoint
    /\ [][AnsweredOnce]_vars
    /\ []<>NoneWaiting

\* an update answered 404 and, after it, a create that wrote the file
C19_Witness ==
    \E r, c \in Requests :
        /\ method[r] = "PUT"
        /\ status[r] = 404
        /\ ~Touched(r)
        /\ method[c] = "POST"
        /\ status[c] = 201
        /\ loadVer[r] < saveVer[c]
        /\ arriveVer[c] >= loadVer[r]

=============================================================================
